---- MODULE Spec2Model ----
(***************************************************************************)
(* Token manager of the Obsidian task syncer (AuthManager, src/auth.ts as  *)
(* kept in src/src/services/microsoft.ts:364-524) together with the plugin *)
(* entry points that call it (src/src/main.ts).                            *)
(*                                                                         *)
(* JavaScript runs every handler to its next await without interleaving,   *)
(* so each action below is one such run: the invocation of an operation    *)
(* up to its first await, the delivery of one will-redirect event, or the  *)
(* continuation after an awaited token exchange.                           *)
(***************************************************************************)
EXTENDS Integers, Sequences, FiniteSets, TLC

\* Number of token operations (getToken, login command, refresh command)
\* invoked in one plugin session.
MaxCalls == 2

\* Number of redirects one login window reports.
MaxRedirects == 1

\* Microsoft accounts a user may sign in with.
Accounts == {"alice", "bob"}

\* URLSearchParams.get() gives null for a parameter the URL does not carry
\* and the (possibly empty) string otherwise.
Absent == "<null>"

ErrorParams == {Absent, "", "access_denied"}

CodeParams == {Absent, "", "M.C1"}

RedirectUrls == [error : ErrorParams, code : CodeParams]

\* JavaScript truthiness of a string-or-null value: `if (error)`, `!authCode`.
Truthy(p) == p # Absent /\ p # ""

VARIABLES
    tokenFile,   \* the file at tokenFilePath: [exists, data]
    cca,         \* in-memory token cache of the MSAL client (insertion ordered)
    calls,       \* the token operations invoked so far, in order of invocation
    issued       \* number of the last token pair the token endpoint issued

vars == <<tokenFile, cca, calls, issued>>

VARIABLES
    selectedTaskListId,  \* settings.selectedTaskListId, "" when no list is selected
    remote,      \* the tasks of the To-Do list on the server, in list order
    nextId,      \* the id the server gives to the next task it creates
    taskCache,   \* plugin.taskCache: [cached, tasks], tasks a list of <<title, item>>
    last,        \* the last task operation that ran: its inputs, requests and outcome
    ops          \* the number of task operations that ran

VARIABLES
    pending,     \* per handler in flight: where it stands and the run of its fetch
    version,     \* the number of writes the list on the server has had
    stored       \* the versions of the snapshot the cache holds and of the newest it held

raceVars == <<pending, version, stored>>

taskVars ==
    <<selectedTaskListId, remote, nextId, taskCache, last, ops, raceVars>>

----
\* The MSAL token cache and its serialization.

\* One entry of the in-memory cache: a credential of one type for one account.
CacheEntry(type, key, secret) == [type |-> type, key |-> key, secret |-> secret]

RECURSIVE Section(_, _)
\* The entries of one credential type, in cache order, as the serialized
\* section {key: {secret}}.
Section(cache, type) ==
    IF cache = <<>> THEN <<>>
    ELSE IF Head(cache).type = type
         THEN <<[key |-> Head(cache).key, secret |-> Head(cache).secret]>>
              \o Section(Tail(cache), type)
         ELSE Section(Tail(cache), type)

RECURSIVE Tagged(_, _)
\* The entries of a serialized section as in-memory entries of that type.
Tagged(section, type) ==
    IF section = <<>> THEN <<>>
    ELSE <<CacheEntry(type, Head(section).key, Head(section).secret)>>
         \o Tagged(Tail(section), type)

RECURSIVE Reversed(_)
Reversed(s) == IF s = <<>> THEN <<>> ELSE Reversed(Tail(s)) \o <<Head(s)>>

SerializeReversed(cache) ==
    [AccessToken |-> Reversed(Section(cache, "AccessToken")),
     hasRefreshToken |-> TRUE,
     RefreshToken |-> Reversed(Section(cache, "RefreshToken"))]

\* cca.getTokenCache().serialize(): every section is emitted, credential by
\* credential type.
Serialize(cache) ==
    [AccessToken |-> Section(cache, "AccessToken"),
     hasRefreshToken |-> TRUE,
     RefreshToken |-> Section(cache, "RefreshToken")]

\* cca.getTokenCache().deserialize(cacheData): the in-memory cache is replaced
\* by the entries of the file, section after section; a section the file does
\* not have contributes nothing.
Deserialize(data) ==
    Tagged(data.AccessToken, "AccessToken")
    \o (IF data.hasRefreshToken THEN Tagged(data.RefreshToken, "RefreshToken")
        ELSE <<>>)

RECURSIVE Upsert(_, _)
\* Storing a credential: the entry of the same type and account is replaced
\* in place, a new one is appended.
Upsert(cache, e) ==
    IF cache = <<>> THEN <<e>>
    ELSE IF Head(cache).type = e.type /\ Head(cache).key = e.key
         THEN <<e>> \o Tail(cache)
         ELSE <<Head(cache)>> \o Upsert(Tail(cache), e)

\* What a successful exchange leaves in the client's cache: the access token
\* and the refresh token issued for the account.
CacheAfterExchange(cache, acct, n) ==
    Upsert(Upsert(cache, CacheEntry("AccessToken", acct, n)),
           CacheEntry("RefreshToken", acct, n))

saveTokenCacheAccessOnly(cache) ==
    [Serialize(cache) EXCEPT !.RefreshToken = <<>>]

\* saveTokenCache(): the content written to tokenFilePath.
saveTokenCache(cache) == Serialize(cache)

NoData == [AccessToken |-> <<>>, hasRefreshToken |-> FALSE, RefreshToken |-> <<>>]

NoFile == [exists |-> FALSE, data |-> NoData]

File(data) == [exists |-> TRUE, data |-> data]

\* onload step 6: the cache a newly constructed client holds.
OnloadCache(file) == IF file.exists THEN Deserialize(file.data) ELSE <<>>

\* The serialized cache as lines 487-488 parse it. msal-node emits every
\* section on serialize(); as the library is not part of the sources, for a
\* file without a refresh-token section the parsed object is taken to have the
\* section either present and empty or absent.
ParsedCaches(file, cache) ==
    {Serialize(cache)}
    \cup (IF file.exists /\ ~file.data.hasRefreshToken
          THEN {[Serialize(cache) EXCEPT !.hasRefreshToken = FALSE]}
          ELSE {})

----
\* Token operations.

NoError == [name |-> "none", text |-> ""]

Err(name) == [name |-> name, text |-> ""]

NoUrl == [error |-> Absent, code |-> Absent]

\* A token operation at the moment it is invoked. op is the entry point, path
\* the branch it runs, pc the state of its promise ("waiting" for a redirect,
\* "exchanging" while a token request is in flight, "resolved", "rejected"),
\* window the login window, prevented whether event.preventDefault() was
\* called, lastUrl the URL of the last redirect reported, token the access
\* token returned, err the rejection reason. The other fields record what the
\* operation did: fileAtCall and rtAtCall the token file (existence, number of
\* refresh-token entries) when it was invoked, redirects the events its
\* listener saw, sent the token requests it sent, writes its file writes.
NewCall(op, path) ==
    [op |-> op, path |-> path,
     fileAtCall |-> tokenFile.exists,
     rtAtCall |-> IF tokenFile.exists /\ tokenFile.data.hasRefreshToken
                  THEN Len(tokenFile.data.RefreshToken) ELSE 0,
     pc |-> "start", window |-> "none", prevented |-> FALSE,
     redirects |-> 0, lastUrl |-> NoUrl,
     sent |-> 0, writes |-> 0, refreshToken |-> 0, acct |-> "",
     token |-> 0, err |-> NoError]

reject(rec, err) == [rec EXCEPT !.pc = "rejected", !.err = err]

resolve(rec, n) == [rec EXCEPT !.pc = "resolved", !.token = n, !.writes = @ + 1]

getTokenPathAlwaysRefresh(fileExists) == "refresh"

\* getToken(): the branch taken on fs.existsSync(tokenFilePath).
getTokenPath(fileExists) == IF fileExists THEN "refresh" ELSE "login"

\* getAccessToken() up to the registration of the will-redirect listener.
getAccessToken(rec) == [rec EXCEPT !.window = "open", !.pc = "waiting"]

refreshThrowFallback(rec, err) == getAccessToken([rec EXCEPT !.path = "login"])

\* An error of the refresh path leaves refreshAccessTokenWithCCA, getToken and
\* the plugin's getAccessToken unchanged: each rethrows it.
refreshThrow(rec, err) == reject(rec, err)

refreshWithoutExistsCheck(rec, file, parsed) ==
    IF ~file.exists THEN refreshThrow(rec, Err("ENOENT"))
    ELSE IF ~parsed.hasRefreshToken THEN refreshThrow(rec, Err("NoRefreshToken"))
    ELSE IF Len(parsed.RefreshToken) = 0 THEN refreshThrow(rec, Err("TypeError"))
    ELSE [rec EXCEPT !.pc = "exchanging", !.sent = @ + 1,
                     !.refreshToken = Head(parsed.RefreshToken).secret,
                     !.acct = Head(parsed.RefreshToken).key]

\* refreshAccessTokenWithCCA() up to its await.
refreshAccessTokenWithCCA(rec, file, parsed) ==
    IF ~file.exists THEN refreshThrow(rec, Err("NoTokenCache"))
    ELSE IF ~parsed.hasRefreshToken THEN refreshThrow(rec, Err("NoRefreshToken"))
    ELSE IF Len(parsed.RefreshToken) = 0 THEN refreshThrow(rec, Err("TypeError"))
    ELSE [rec EXCEPT !.pc = "exchanging", !.sent = @ + 1,
                     !.refreshToken = Head(parsed.RefreshToken).secret,
                     !.acct = Head(parsed.RefreshToken).key]

userClosesWindowRejects(rec) ==
    reject([rec EXCEPT !.window = "closed"], Err("WindowClosed"))

\* The user closes the login window. getAccessToken registers a will-redirect
\* listener only: nothing of the promise reacts to the window closing.
userClosesWindow(rec) == [rec EXCEPT !.window = "closed"]

\* The event the listener is called with.
Seen(rec, url) == [rec EXCEPT !.redirects = @ + 1, !.lastUrl = url]

\* Lines 455-463: preventDefault, close, and the authorization-code request.
startCodeExchange(rec, authCode) ==
    [rec EXCEPT !.prevented = TRUE, !.window = "closed",
                !.pc = "exchanging", !.sent = @ + 1]

\* The catch block of the handler: close the window unless destroyed, reject.
loginCatch(rec, err) == reject([rec EXCEPT !.window = "closed"], err)

OAuthError(error) == [name |-> "OAuth error: ", text |-> error]

willRedirectCodeFirst(rec, url) ==
    IF Truthy(url.code) THEN startCodeExchange(Seen(rec, url), url.code)
    ELSE IF Truthy(url.error) THEN loginCatch(Seen(rec, url), OAuthError(url.error))
    ELSE Seen(rec, url)

willRedirectNoEarlyReturn(rec, url) ==
    IF Truthy(url.error) THEN loginCatch(Seen(rec, url), OAuthError(url.error))
    ELSE startCodeExchange(Seen(rec, url), url.code)

willRedirectClosesLate(rec, url) ==
    IF Truthy(url.error) THEN loginCatch(Seen(rec, url), OAuthError(url.error))
    ELSE IF ~Truthy(url.code) THEN Seen(rec, url)
    ELSE [Seen(rec, url) EXCEPT !.prevented = TRUE, !.pc = "exchanging",
                                !.sent = @ + 1]

\* The will-redirect listener up to its await (lines 446-463).
willRedirect(rec, url) ==
    IF Truthy(url.error) THEN loginCatch(Seen(rec, url), OAuthError(url.error))
    ELSE IF ~Truthy(url.code) THEN Seen(rec, url)
    ELSE startCodeExchange(Seen(rec, url), url.code)

----
\* Actions.

\* The refresh path of an operation invoked now: existsSync, readFileSync,
\* deserialize, serialize, the refresh-token lookup and the request.
RefreshBegin(op) ==
    /\ cca' = IF tokenFile.exists THEN Deserialize(tokenFile.data) ELSE cca
    /\ \E parsed \in ParsedCaches(tokenFile, cca') :
          calls' = Append(calls,
                     refreshAccessTokenWithCCA(NewCall(op, "refresh"),
                                               tokenFile, parsed))
    /\ UNCHANGED <<tokenFile, issued>>

\* The interactive path of an operation invoked now: the login window opens.
LoginBegin(op) ==
    /\ calls' = Append(calls, getAccessToken(NewCall(op, "login")))
    /\ UNCHANGED <<tokenFile, cca, issued>>

\* plugin.getAccessToken() -> authManager.getToken(), as every command and
\* every task API request calls it.
GetToken ==
    /\ Len(calls) < MaxCalls
    /\ IF getTokenPath(tokenFile.exists) = "refresh"
       THEN RefreshBegin("getToken")
       ELSE LoginBegin("getToken")
    /\ UNCHANGED taskVars

\* Command "Login to Microsoft To-Do (Interactive)".
LoginCommand ==
    /\ Len(calls) < MaxCalls
    /\ LoginBegin("login")
    /\ UNCHANGED taskVars

\* Command "Refresh Microsoft To-Do Token".
RefreshCommand ==
    /\ Len(calls) < MaxCalls
    /\ RefreshBegin("refresh")
    /\ UNCHANGED taskVars

\* The login window of call c reports a redirect to url, one of at most max.
WillRedirectWithin(c, url, max) ==
    /\ calls[c].window = "open"
    /\ calls[c].redirects < max
    /\ calls' = [calls EXCEPT ![c] = willRedirect(@, url)]
    /\ UNCHANGED <<tokenFile, cca, issued>>
    /\ UNCHANGED taskVars

\* The login window of call c reports a redirect to url.
WillRedirect(c, url) == WillRedirectWithin(c, url, MaxRedirects)

\* The user closes the login window of call c.
UserClosesWindow(c) ==
    /\ calls[c].window = "open"
    /\ calls' = [calls EXCEPT ![c] = userClosesWindow(@)]
    /\ UNCHANGED <<tokenFile, cca, issued>>
    /\ UNCHANGED taskVars

\* A token response arrived for call c: the library caches the tokens, the
\* cache is saved and the promise resolves with the access token.
ExchangeSucceeded(c, acct) ==
    /\ issued' = issued + 1
    /\ cca' = CacheAfterExchange(cca, acct, issued')
    /\ tokenFile' = File(saveTokenCache(cca'))
    /\ calls' = [calls EXCEPT ![c] = resolve(@, issued')]

\* acquireTokenByCode settles for call c (lines 463-470).
AcquireTokenByCodeDone(c) ==
    /\ calls[c].path = "login"
    /\ calls[c].pc = "exchanging"
    /\ \/ \E acct \in Accounts : ExchangeSucceeded(c, acct)
       \/ /\ \E err \in {Err("ExchangeRejected"), Err("NoTokenResponse")} :
                calls' = [calls EXCEPT ![c] = loginCatch(@, err)]
          /\ UNCHANGED <<tokenFile, cca, issued>>
    /\ UNCHANGED taskVars

\* acquireTokenByRefreshToken settles for call c (lines 502-509). The tokens
\* issued belong to the account of the refresh token sent.
AcquireTokenByRefreshTokenDone(c) ==
    /\ calls[c].path = "refresh"
    /\ calls[c].pc = "exchanging"
    /\ \/ ExchangeSucceeded(c, calls[c].acct)
       \/ /\ \E err \in {Err("ExchangeRejected"), Err("NoTokenResponse")} :
                calls' = [calls EXCEPT ![c] = refreshThrow(@, err)]
          /\ UNCHANGED <<tokenFile, cca, issued>>
    /\ UNCHANGED taskVars

----
\* The To-Do list on the server and the task API client (api.ts).

\* Bounds: the ids the server hands out, and the requests of one operation
\* among which one may be answered with an error.
MaxId == 4
MaxFail == 3

\* Bound: the task operations of one behaviour.
MaxOps == 2

\* JavaScript values that are not strings of the program.
Undefined == "<undefined>"
JsTrue == "<true>"
JsFalse == "<false>"

JsTruthy(v) == v \notin {Undefined, "", JsFalse}

ListId == "L1"

\* The list part of a URL that names no list (/me/todo/lists).
AllLists == "*"

\* Titles as they are stored on the server or written in a note; "A " carries
\* trailing whitespace.
RawTitles == {"A", "A ", "B", "C"}

TrimIdentity(s) == s

\* String.prototype.trim over RawTitles.
Trim(s) == IF s = "A " THEN "A" ELSE s

Statuses == {"notStarted", "completed"}

\* A task as the server stores it.
RemoteTask(id, title, status, due) ==
    [id |-> id, title |-> title, status |-> status, dueDateTime |-> due]

\* A JSON body without fields.
EmptyBody == [f \in {} |-> ""]

Has(body, field) == field \in DOMAIN body

\* One HTTP request to the task API: list and task are the ids in its URL
\* (task 0 when the URL names no task), token the bearer it carries.
Request(method, list, task, token, body) ==
    [method |-> method, list |-> list, task |-> task, token |-> token,
     body |-> body]

RECURSIVE IndexOfId(_, _)
\* Position in tasks of the task with this id, 0 when there is none.
IndexOfId(tasks, id) ==
    IF tasks = <<>> THEN 0
    ELSE IF tasks[Len(tasks)].id = id THEN Len(tasks)
    ELSE IndexOfId(SubSeq(tasks, 1, Len(tasks) - 1), id)

RemoveAt(seq, i) == SubSeq(seq, 1, i - 1) \o SubSeq(seq, i + 1, Len(seq))

Response(status, statusText, text, value, tasks, nid) ==
    [status |-> status, statusText |-> statusText, text |-> text,
     value |-> value, tasks |-> tasks, nextId |-> nid]

\* The task of a PATCH body applied to a stored task: the server takes the
\* fields it is given; a title that is not a string changes nothing.
Patched(task, body) ==
    [task EXCEPT
       !.title = IF Has(body, "title") /\ body.title \notin {JsTrue, JsFalse}
                 THEN body.title ELSE @,
       !.status = IF Has(body, "status") THEN body.status ELSE @,
       !.dueDateTime = IF Has(body, "dueDateTime")
                       THEN body.dueDateTime.dateTime ELSE @]

\* Microsoft Graph answering one request; up = FALSE is any failure of the
\* service. The response carries the list as the request leaves it.
Serve(tasks, nid, req, up) ==
    LET at == IndexOfId(tasks, req.task) IN
    IF ~up THEN
        Response(500, "Internal Server Error", "{error:500}", <<>>, tasks, nid)
    ELSE IF req.list = AllLists THEN
        Response(200, "OK", "",
                 <<[id |-> ListId, displayName |-> "Tasks"]>>, tasks, nid)
    ELSE IF req.list # ListId \/ (req.task # 0 /\ at = 0) THEN
        Response(404, "Not Found", "{error:404}", <<>>, tasks, nid)
    ELSE IF req.method = "GET" THEN
        Response(200, "OK", "", tasks, tasks, nid)
    ELSE IF req.method = "POST" THEN
        Response(201, "Created", "", <<>>,
                 Append(tasks,
                        Patched(RemoteTask(nid, "", "notStarted", Undefined),
                                req.body)),
                 nid + 1)
    ELSE IF req.method = "DELETE" THEN
        Response(204, "No Content", "", <<>>, RemoveAt(tasks, at), nid)
    ELSE IF req.task = 0 THEN
        Response(200, "OK", "", <<>>, tasks, nid)
    ELSE
        Response(200, "OK", "", <<>>,
                 [tasks EXCEPT ![at] = Patched(@, req.body)], nid)


\* One run of an operation: the list on the server as the run leaves it, the
\* requests sent and the tokens acquired so far, the last response, the map
\* last fetched, the error thrown (NoError while running) and the value
\* returned. fail is the number of the request that the service fails (0 for
\* none, -1 when the token acquisition fails instead).
NoResponse == Response(0, "", "", <<>>, <<>>, 0)

\* plugin.taskCache: null, or { tasks: Array<[title, TaskItem]> }.
NoCache == [cached |-> FALSE, tasks |-> <<>>]

Cached(entries) == [cached |-> TRUE, tasks |-> entries]

Begin(tasks, nid, cache, fail) ==
    [tasks |-> tasks, nextId |-> nid, cache |-> cache, requests |-> <<>>,
     tokens |-> 0, res |-> NoResponse, fetched |-> FALSE, value |-> <<>>,
     map |-> <<>>, err |-> NoError, caught |-> NoError, count |-> 0,
     notices |-> <<>>, checked |-> FALSE, fail |-> fail]

throw(run, e) == [run EXCEPT !.err = e]

\* A catch block that does not rethrow.
swallow(run) == [run EXCEPT !.caught = run.err, !.err = NoError]

Failed(run) == run.err # NoError

\* new Error(prefix + detail)
Error(prefix, detail) == [name |-> prefix, text |-> detail]

\* requestUrl / fetch: the request goes out and the response comes back.
send(run, req) ==
    LET res == Serve(run.tasks, run.nextId, req,
                     run.fail # Len(run.requests) + 1) IN
    [run EXCEPT !.requests = Append(@, req), !.res = res,
                !.tasks = res.tasks, !.nextId = res.nextId]

withAccessTokenCached(run) ==
    IF run.fail = -1 THEN [run EXCEPT !.err = Err("TokenError")]
    ELSE [run EXCEPT !.tokens = 1]

\* plugin.getAccessToken() inside a task operation: the tokens of one run are
\* numbered in the order they are acquired.
withAccessToken(run) ==
    IF run.fail = -1 THEN throw(run, Err("TokenError"))
    ELSE [run EXCEPT !.tokens = @ + 1]

RECURSIVE MapSetFirstWins(_, _, _)
MapSetFirstWins(m, k, v) ==
    IF m = <<>> THEN << <<k, v>> >>
    ELSE IF m[1][1] = k THEN m
    ELSE <<m[1]>> \o MapSetFirstWins(Tail(m), k, v)

\* Map.prototype.set on a map kept as a list of <<key, value>> in insertion
\* order: a key already present keeps its place and takes the new value.
RECURSIVE MapSet(_, _, _)
MapSet(m, k, v) ==
    IF m = <<>> THEN << <<k, v>> >>
    ELSE IF m[1][1] = k THEN << <<k, v>> >> \o Tail(m)
    ELSE <<m[1]>> \o MapSet(Tail(m), k, v)

MapKeys(m) == {m[i][1] : i \in 1..Len(m)}

MapHasFirstOnly(m, k) == m # <<>> /\ m[1][1] = k

MapHas(m, k) == k \in MapKeys(m)

MapGet(m, k) == m[CHOOSE i \in 1..Len(m) : m[i][1] = k][2]

MapValues(m) == [i \in 1..Len(m) |-> m[i][2]]

\* The TaskItem fetchTasks builds from one task of the response.
TaskItem(task) ==
    [title |-> Trim(task.title), status |-> task.status, id |-> task.id,
     dueDateTime |-> task.dueDateTime]

RECURSIVE TasksMap(_)
\* The loop of fetchTasks over response.json.value.
TasksMap(value) ==
    IF value = <<>> THEN <<>>
    ELSE LET before == TasksMap(SubSeq(value, 1, Len(value) - 1))
             item == TaskItem(value[Len(value)])
         IN MapSet(before, item.title, item)

fetchTasks(run, list, accessToken) ==
    LET r == send(run, Request("GET", list, 0, accessToken, EmptyBody)) IN
    IF r.res.status # 200
    THEN throw(r, Error("Failed to fetch tasks: ", r.res.text))
    ELSE [r EXCEPT !.fetched = TRUE, !.value = r.res.value,
                   !.map = TasksMap(r.res.value)]

DueDateTime(dueDate) ==
    [dueDateTime |-> [dateTime |-> dueDate, timeZone |-> "GMT Standard Time"]]

createTask(run, list, accessToken, taskTitle, dueDate) ==
    LET body == [title |-> taskTitle]
                @@ (IF JsTruthy(dueDate) THEN DueDateTime(dueDate)
                    ELSE EmptyBody)
        r == send(run, Request("POST", list, 0, accessToken, body))
    IN IF r.res.status # 201
       THEN throw(r, Error("Failed to create task: ", r.res.text))
       ELSE r

updateTaskBodySendsAll(title, status, dueDate) ==
    [title |-> title,
     status |-> IF JsTruthy(status) THEN "completed" ELSE "notStarted"]
    @@ DueDateTime(dueDate)

\* The PATCH body updateTask builds from its optional parameters.
updateTaskBody(title, status, dueDate) ==
    (IF title # Undefined THEN [title |-> title] ELSE EmptyBody)
    @@ (IF status # Undefined
        THEN [status |-> IF JsTruthy(status) THEN "completed"
                         ELSE "notStarted"]
        ELSE EmptyBody)
    @@ (IF dueDate # Undefined THEN DueDateTime(dueDate) ELSE EmptyBody)

updateTask(run, list, accessToken, taskId, title, status, dueDate) ==
    LET r == send(run, Request("PATCH", list, taskId, accessToken,
                               updateTaskBody(title, status, dueDate)))
    IN IF r.res.status # 200
       THEN throw(r, Error("Failed to update task: ", r.res.text))
       ELSE r

fetchTaskLists(run, accessToken) ==
    LET r == send(run, Request("GET", AllLists, 0, accessToken, EmptyBody)) IN
    IF r.res.status # 200
    THEN throw(r, Error("Failed to fetch task lists: ", r.res.text))
    ELSE r

deleteTask(run, list, accessToken, taskId) ==
    LET r == send(run, Request("DELETE", list, taskId, accessToken, EmptyBody))
    IN IF r.res.status # 204
       THEN throw(r, Error("Failed to delete task: ", r.res.text))
       ELSE r

\* response.ok of the Fetch API.
Ok(res) == res.status >= 200 /\ res.status <= 299

updateTaskListName(run, list, accessToken, newName) ==
    LET r == send(run, Request("PATCH", list, 0, accessToken,
                               [displayName |-> newName]))
    IN IF ~Ok(r.res)
       THEN throw(r, Error("Error updating list name: ", r.res.statusText))
       ELSE r


----
\* The operations of the plugin on tasks (main.ts).

notify(run, text) == [run EXCEPT !.notices = Append(@, text)]

NoTaskListSelected ==
    Error("No task list selected. Please choose one in settings.", "")

\* A note is a list of lines; mark is " " or "x" for a line the task pattern
\* matches and "-" for any other line, text what follows the checkbox.
Line(mark, text) == [mark |-> mark, text |-> text]

RECURSIVE noteTasks(_)
\* The tasks pushTasksFromNote reads from the note, in note order.
noteTasks(note) ==
    IF note = <<>> THEN <<>>
    ELSE (IF Head(note).mark \in {" ", "x"}
          THEN <<[title |-> Trim(Head(note).text),
                  complete |-> Head(note).mark = "x"]>>
          ELSE <<>>) \o noteTasks(Tail(note))

RECURSIVE MergeEntries(_, _)
MergeEntries(old, new) ==
    IF new = <<>> THEN old
    ELSE MergeEntries(MapSet(old, new[1][1], new[1][2]), Tail(new))

refreshTaskCacheMerge(run, list) ==
    IF ~JsTruthy(list) THEN throw(run, NoTaskListSelected)
    ELSE LET a == withAccessToken(run) IN
         IF Failed(a) THEN a
         ELSE LET f == fetchTasks(a, list, a.tokens) IN
              IF Failed(f) THEN f
              ELSE [f EXCEPT !.cache =
                                Cached(MergeEntries(run.cache.tasks, f.map))]

refreshTaskCacheClearing(run, list) ==
    IF ~JsTruthy(list) THEN throw(run, NoTaskListSelected)
    ELSE LET a == withAccessToken([run EXCEPT !.cache = NoCache]) IN
         IF Failed(a) THEN a
         ELSE LET f == fetchTasks(a, list, a.tokens) IN
              IF Failed(f) THEN f
              ELSE [f EXCEPT !.cache = Cached(f.map)]

refreshTaskCache(run, list) ==
    IF ~JsTruthy(list) THEN throw(run, NoTaskListSelected)
    ELSE LET a == withAccessToken(run) IN
         IF Failed(a) THEN a
         ELSE LET f == fetchTasks(a, list, a.tokens) IN
              IF Failed(f) THEN f
              ELSE [f EXCEPT !.cache = Cached(f.map)]

RECURSIVE MapFromEntries(_)
\* new Map(entries)
MapFromEntries(entries) ==
    IF entries = <<>> THEN <<>>
    ELSE MapSet(MapFromEntries(SubSeq(entries, 1, Len(entries) - 1)),
                entries[Len(entries)][1], entries[Len(entries)][2])

getTasksFromSelectedList(run, list) ==
    IF ~JsTruthy(list) THEN throw(run, NoTaskListSelected)
    ELSE IF run.cache.cached
    THEN [run EXCEPT !.map = MapFromEntries(run.cache.tasks)]
    ELSE refreshTaskCache(run, list)

\* refreshViewAndCache: the side panel shows the items of the cache.
refreshViewAndCache(run, list) == refreshTaskCache(run, list)

RECURSIVE pushLoopIsolated(_, _, _, _, _)
pushLoopIsolated(run, list, accessToken, existingTasks, todo) ==
    IF todo = <<>> THEN run
    ELSE LET task == Head(todo)
             r == [run EXCEPT !.err = NoError]
             n == IF MapHas(existingTasks, task.title)
                  THEN IF task.complete
                          /\ MapGet(existingTasks, task.title).status
                               # "completed"
                       THEN updateTask(r, list, accessToken,
                                       MapGet(existingTasks, task.title).id,
                                       Undefined, JsTrue, Undefined)
                       ELSE r
                  ELSE createTask(r, list, accessToken, task.title,
                                  IF task.complete THEN "completed"
                                  ELSE "notStarted")
             m == pushLoopIsolated(n, list, accessToken, existingTasks,
                                   Tail(todo))
         IN IF Failed(n) /\ ~Failed(m) THEN throw(m, n.err) ELSE m

RECURSIVE pushLoopMirror(_, _, _, _, _)
pushLoopMirror(run, list, accessToken, existingTasks, todo) ==
    IF todo = <<>> \/ Failed(run) THEN run
    ELSE LET task == Head(todo) IN
         IF MapHas(existingTasks, task.title)
         THEN IF task.complete
                 # (MapGet(existingTasks, task.title).status = "completed")
              THEN pushLoopMirror(
                       updateTask(run, list, accessToken,
                                  MapGet(existingTasks, task.title).id,
                                  Undefined,
                                  IF task.complete THEN JsTrue ELSE JsFalse,
                                  Undefined),
                       list, accessToken, existingTasks, Tail(todo))
              ELSE pushLoopMirror(run, list, accessToken, existingTasks,
                                  Tail(todo))
         ELSE LET c == createTask(run, list, accessToken, task.title,
                                  IF task.complete THEN "completed"
                                  ELSE "notStarted")
              IN pushLoopMirror(IF Failed(c) THEN c
                                ELSE [c EXCEPT !.count = @ + 1],
                                list, accessToken, existingTasks, Tail(todo))

RECURSIVE pushLoop(_, _, _, _, _)
\* The loop of pushTasksFromNote over the note tasks still to handle.
pushLoop(run, list, accessToken, existingTasks, todo) ==
    IF todo = <<>> \/ Failed(run) THEN run
    ELSE LET task == Head(todo) IN
         IF MapHas(existingTasks, task.title)
         THEN IF task.complete
                 /\ MapGet(existingTasks, task.title).status # "completed"
              THEN pushLoop(updateTask(run, list, accessToken,
                                       MapGet(existingTasks, task.title).id,
                                       Undefined, JsTrue, Undefined),
                            list, accessToken, existingTasks, Tail(todo))
              ELSE pushLoop(run, list, accessToken, existingTasks, Tail(todo))
         ELSE LET initialStatus == IF task.complete THEN "completed"
                                   ELSE "notStarted"
                  c == createTask(run, list, accessToken, task.title,
                                  initialStatus)
              IN pushLoop(IF Failed(c) THEN c
                          ELSE [c EXCEPT !.count = @ + 1],
                          list, accessToken, existingTasks, Tail(todo))

pushTasksFromNote(run, list, note) ==
    IF ~JsTruthy(list) THEN throw(run, NoTaskListSelected)
    ELSE IF noteTasks(note) = <<>>
    THEN throw(run, Error("No tasks found in the active note.", ""))
    ELSE LET a == withAccessToken(run) IN
         IF Failed(a) THEN a
         ELSE LET f == fetchTasks(a, list, a.tokens) IN
              IF Failed(f) THEN f
              ELSE pushLoop(f, list, a.tokens, f.map, noteTasks(note))

pushOneTask(run, list, task, dueDate) ==
    IF ~JsTruthy(list) THEN throw(run, NoTaskListSelected)
    ELSE LET a == withAccessToken(run) IN
         IF Failed(a) THEN a
         ELSE LET f == fetchTasks(a, list, a.tokens) IN
              IF Failed(f) THEN f
              ELSE LET c == createTask(f, list, a.tokens, task, dueDate) IN
                   IF Failed(c) THEN c ELSE refreshViewAndCache(c, list)

RECURSIVE deleteLoop(_, _, _, _)
\* The loop of deleteAllCompletedTasks over the items still to handle.
deleteLoop(run, list, accessToken, items) ==
    IF items = <<>> \/ Failed(run) THEN run
    ELSE IF Head(items).status # "completed"
    THEN deleteLoop(run, list, accessToken, Tail(items))
    ELSE LET d == deleteTask(run, list, accessToken, Head(items).id) IN
         deleteLoop(IF Failed(d) THEN d ELSE [d EXCEPT !.count = @ + 1],
                    list, accessToken, Tail(items))

\* The catch of deleteAllCompletedTasks returns the count; the refresh it
\* starts without awaiting runs on after the return, its error unobserved.
deleteAllCompletedTasks(run, list) ==
    IF ~JsTruthy(list) THEN throw(run, NoTaskListSelected)
    ELSE LET a == withAccessToken(run) IN
         IF Failed(a) THEN swallow(a)
         ELSE LET g == getTasksFromSelectedList(a, list) IN
              IF Failed(g) THEN swallow(g)
              ELSE LET d == deleteLoop(g, list, a.tokens, MapValues(g.map)) IN
                   IF Failed(d) THEN swallow(d)
                   ELSE swallow(refreshViewAndCache(d, list))


----
\* The side panel (right-sidebar-view.ts). The panel renders the items of the
\* task cache, so the item a checkbox belongs to is an item of the cache.

JsBool(b) == IF b THEN JsTrue ELSE JsFalse

flipStatus(run, i, newCompletedState) ==
    [run EXCEPT !.cache.tasks[i][2].status =
                    IF newCompletedState THEN "completed" ELSE "notstarted"]

\* The catch of the checkbox handlers.
failedToUpdate(run, newCompletedState) ==
    [swallow(notify(run, "Failed to update task"))
       EXCEPT !.checked = ~newCompletedState]

\* The change handler render() gives to the checkbox of cache item i.
checkboxChange(run, list, i, newCompletedState) ==
    LET task == run.cache.tasks[i][2]
        r == [run EXCEPT !.checked = newCompletedState]
        a == withAccessToken(r)
    IN IF Failed(a) THEN failedToUpdate(a, newCompletedState)
       ELSE LET u == updateTask(a, list, a.tokens, task.id,
                                JsBool(newCompletedState), Undefined,
                                Undefined)
            IN IF Failed(u) THEN failedToUpdate(u, newCompletedState)
               ELSE LET f == refreshTaskCache(
                                 flipStatus(u, i, newCompletedState), list)
                    IN IF Failed(f)
                       THEN swallow(notify(f, "Failed to refresh tasks"))
                       ELSE f

----
\* MicrosoftTaskService (services/microsoft.ts).

\* request(): scoped says that the path holds {listId}.
request(run, list, scoped, method, task, body) ==
    LET a == withAccessToken(run) IN
    IF Failed(a) THEN a
    ELSE IF scoped /\ ~JsTruthy(list)
    THEN throw(a, Error("Missing selectedTaskListId in settings", ""))
    ELSE send(a, Request(method, IF scoped THEN list ELSE AllLists, task,
                         a.tokens, body))

Service_fetchTaskLists(run, list) ==
    LET r == request(run, list, FALSE, "GET", 0, EmptyBody) IN
    IF Failed(r) THEN r
    ELSE IF r.res.status # 200
    THEN throw(r, Error("Failed to fetch lists: ", r.res.text))
    ELSE r

Service_fetchTasks(run, list) ==
    LET r == request(run, list, TRUE, "GET", 0, EmptyBody) IN
    IF Failed(r) THEN r
    ELSE IF r.res.status # 200
    THEN throw(r, Error("Failed to fetch tasks: ", r.res.text))
    ELSE [r EXCEPT !.fetched = TRUE, !.value = r.res.value,
                   !.map = TasksMap(r.res.value)]

Service_createTask(run, list, title, dueDate) ==
    LET body == [title |-> title]
                @@ (IF JsTruthy(dueDate) THEN DueDateTime(dueDate)
                    ELSE EmptyBody)
        r == request(run, list, TRUE, "POST", 0, body)
    IN IF Failed(r) THEN r
       ELSE IF r.res.status # 201
       THEN throw(r, Error("Failed to create task: ", r.res.text))
       ELSE r

Service_updateTask(run, list, taskId, title, status, dueDate) ==
    LET r == request(run, list, TRUE, "PATCH", taskId,
                     updateTaskBody(title, status, dueDate))
    IN IF Failed(r) THEN r
       ELSE IF r.res.status # 200
       THEN throw(r, Error("Failed to update task: ", r.res.text))
       ELSE r

Service_deleteTask(run, list, taskId) ==
    LET r == request(run, list, TRUE, "DELETE", taskId, EmptyBody) IN
    IF Failed(r) THEN r
    ELSE IF r.res.status # 204
    THEN throw(r, Error("Failed to delete task: ", r.res.text))
    ELSE r

Service_updateTaskListName(run, list, newName) ==
    LET r == request(run, list, TRUE, "PATCH", 0, [displayName |-> newName])
    IN IF Failed(r) THEN r
       ELSE IF r.res.status < 200 \/ r.res.status >= 300
       THEN throw(r, Error("Failed to rename list: ", r.res.text))
       ELSE r

\* handleTaskStatusChange of the panel that works through the service.
handleTaskStatusChange(run, list, i, newCompletedState) ==
    LET task == run.cache.tasks[i][2]
        r == [run EXCEPT !.checked = newCompletedState]
        u == Service_updateTask(r, list, task.id, Undefined,
                                JsBool(newCompletedState), Undefined)
    IN IF Failed(u) THEN failedToUpdate(u, newCompletedState)
       ELSE LET f == refreshTaskCache(flipStatus(u, i, newCompletedState),
                                      list)
            IN IF Failed(f) THEN failedToUpdate(f, newCompletedState)
               ELSE f


----
\* The commands and events that run task operations.

Fails == -1..MaxFail

Notes ==
    {<<Line(" ", "A"), Line("x", "B"), Line(" ", "A")>>,
     <<Line("-", "notes"), Line("x", "A ")>>}

NoNote == <<>>

DueDates == {Undefined, "2025-01-01"}

\* What is recorded of an operation: its name and inputs, the selected list,
\* the server's list and the cache as it found them, its run, what called it
\* (a command, or a direct call of api.ts or of the service), and the name,
\* note and notifications of the operation that ran before it.
Operation(op, note, title, item, run) ==
    [op |-> op, note |-> note, title |-> title, item |-> item,
     status |-> Undefined, dueDate |-> Undefined,
     list |-> selectedTaskListId, before |-> remote,
     cacheBefore |-> taskCache, run |-> run, via |-> "command",
     prev |-> [op |-> last.op, note |-> last.note,
               notices |-> last.run.notices]]

NoOperation ==
    [op |-> "none", note |-> NoNote, title |-> "", item |-> 0,
     status |-> Undefined, dueDate |-> Undefined, list |-> "",
     before |-> <<>>, cacheBefore |-> NoCache,
     run |-> Begin(<<>>, 1, NoCache, 0), via |-> "command",
     prev |-> [op |-> "none", note |-> NoNote, notices |-> <<>>]]

Start(fail) == Begin(remote, nextId, taskCache, fail)

\* The operation is over: the server and the cache are as its run left them.
Finish(op, note, title, item, run) ==
    /\ ops < MaxOps
    /\ ops' = ops + 1
    /\ run.nextId <= MaxId + 1
    /\ remote' = run.tasks
    /\ nextId' = run.nextId
    /\ taskCache' = run.cache
    /\ last' = Operation(op, note, title, item, run)
    /\ UNCHANGED selectedTaskListId
    /\ UNCHANGED raceVars
    /\ UNCHANGED vars

\* The try/catch of a command callback around the operation it awaited.
commandEnd(run, success, error) ==
    IF Failed(run) THEN swallow(notify(run, error)) ELSE notify(run, success)

\* Command "Get Tasks from Selected List".
GetTasksCommand(fail) ==
    Finish("getTasks", NoNote, "", 0,
           commandEnd(getTasksFromSelectedList(
                          notify(Start(fail), "Fetching tasks..."),
                          selectedTaskListId),
                      "Tasks fetched successfully!",
                      "Error fetching tasks. Check the console for details."))

\* Command "Push All Tasks from Note to Microsoft To-Do" on the note.
PushTasksCommand(note, fail) ==
    LET p == pushTasksFromNote(
                 notify(Start(fail), "Syncing tasks to Microsoft To-Do..."),
                 selectedTaskListId, note)
        error == "Error pushing tasks. Check the console for details."
    IN Finish("pushTasksFromNote", note, "", 0,
              IF Failed(p) THEN swallow(notify(p, error))
              ELSE LET f == refreshViewAndCache(
                                notify(p, "Tasks synced successfully!"),
                                selectedTaskListId)
                   IN IF Failed(f) THEN swallow(notify(f, error)) ELSE f)

\* Command "Create and push Task": the modal is submitted.
PushOneTaskCommand(title, dueDate, fail) ==
    Finish("pushOneTask", NoNote, title, 0,
           commandEnd(pushOneTask(
                          notify(Start(fail),
                                 "Pushing tasks to Microsoft To-Do..."),
                          selectedTaskListId, title, dueDate),
                      "Tasks pushed successfully!",
                      "Error pushing tasks. Check the console for details."))

\* Command "Show Tasks List": the modal opens with the tasks that are not
\* completed and the user picks the i-th of them; nothing catches what the
\* callback of the modal throws.
CompleteTaskCommand(i, fail) ==
    LET g == getTasksFromSelectedList(Start(fail), selectedTaskListId)
        error == "Error completing task. Check the console for details."
        notStartedTasks == SelectSeq(MapValues(g.map),
                                     LAMBDA t : t.status # "completed")
    IN IF Failed(g)
       THEN /\ i = 1
            /\ Finish("completeTask", NoNote, "", 0,
                      swallow(notify(g, error)))
       ELSE /\ i <= Len(notStartedTasks)
            /\ LET task == notStartedTasks[i]
                   a == withAccessToken(notify(g, "Marking as complete..."))
                   u == updateTask(a, selectedTaskListId, a.tokens, task.id,
                                   Undefined, JsTrue, Undefined)
               IN Finish("completeTask", NoNote, task.title, task.id,
                         IF Failed(a) THEN swallow(a)
                         ELSE IF Failed(u) THEN swallow(u)
                         ELSE swallow(refreshViewAndCache(
                                  notify(u, "Task marked as complete and synced."),
                                  selectedTaskListId)))

\* The refresh button of the side panel.
RefreshButton(fail) ==
    LET r == refreshTaskCache(Start(fail), selectedTaskListId) IN
    Finish("refreshTaskCache", NoNote, "", 0,
           IF Failed(r) THEN swallow(notify(r, "Failed to refresh tasks"))
           ELSE r)

\* Command "Delete Completed Tasks".
DeleteCompletedCommand(fail) ==
    LET d == deleteAllCompletedTasks(
                 notify(Start(fail), "Deleting completed tasks..."),
                 selectedTaskListId)
    IN Finish("deleteAllCompletedTasks", NoNote, "", 0,
              commandEnd(d, "completed tasks deleted successfully!",
                         "Error deleting tasks. Check the console for details."))

\* The user clicks the checkbox of the i-th task of the side panel.
CheckboxChange(i, fail) ==
    /\ taskCache.cached
    /\ i <= Len(taskCache.tasks)
    /\ Finish("checkboxChange", NoNote, taskCache.tasks[i][1],
              taskCache.tasks[i][2].id,
              checkboxChange(Start(fail), selectedTaskListId, i,
                             taskCache.tasks[i][2].status # "completed"))

\* The same click in the side panel that works through the service.
HandleTaskStatusChange(i, fail) ==
    /\ taskCache.cached
    /\ i <= Len(taskCache.tasks)
    /\ Finish("handleTaskStatusChange", NoNote, taskCache.tasks[i][1],
              taskCache.tasks[i][2].id,
              handleTaskStatusChange(Start(fail), selectedTaskListId, i,
                                     taskCache.tasks[i][2].status # "completed"))

\* The "Get Task Lists" button of the settings tab.
loadAvailableTaskLists(run) ==
    LET a == withAccessToken(notify(run, "Loading task lists...")) IN
    commandEnd(IF Failed(a) THEN a ELSE fetchTaskLists(a, a.tokens),
               "Task lists loaded successfully!",
               "Error loading task lists. Check the console for details.")

LoadAvailableTaskLists(fail) ==
    Finish("loadAvailableTaskLists", NoNote, "", 0,
           loadAvailableTaskLists(Start(fail)))

\* The "Task List" dropdown of the settings tab: "" is its first option.
SettingsDropdown(value) ==
    /\ selectedTaskListId' = value
    /\ last' = Operation("settingsDropdown", NoNote, value, 0, Start(0))
    /\ UNCHANGED <<remote, nextId, taskCache, ops>>
    /\ UNCHANGED raceVars
    /\ UNCHANGED vars

\* Command "Select Task List": the user picks the list in the modal; nothing
\* catches what the callback of the modal throws.
SelectTaskListCommand(fail) ==
    /\ ops < MaxOps
    /\ ops' = ops + 1
    /\ selectedTaskListId' = ListId
    /\ LET r == swallow(refreshViewAndCache(Start(fail), ListId)) IN
       /\ remote' = r.tasks
       /\ nextId' = r.nextId
       /\ taskCache' = r.cache
       /\ last' = Operation("selectTaskList", NoNote, ListId, 0, r)
    /\ UNCHANGED raceVars
    /\ UNCHANGED vars


\* A call of one function of the task API client with its arguments.
Call(op, task, title, status, dueDate) ==
    [op |-> op, task |-> task, title |-> title, status |-> status,
     dueDate |-> dueDate]

ClientCalls ==
    {Call(op, 0, Undefined, Undefined, Undefined) :
        op \in {"fetchTaskLists", "fetchTasks"}}
    \cup {Call("createTask", 0, "B", Undefined, d) : d \in DueDates}
    \cup {Call("updateTask", id, t, st, d) :
            id \in 1..2, t \in {Undefined, "B"},
            st \in {Undefined, JsTrue, JsFalse}, d \in DueDates}
    \cup {Call("deleteTask", id, Undefined, Undefined, Undefined) :
            id \in 1..2}
    \cup {Call("updateTaskListName", 0, "Work", Undefined, Undefined)}

FinishCall(via, c, run) ==
    /\ ops < MaxOps
    /\ ops' = ops + 1
    /\ run.nextId <= MaxId + 1
    /\ remote' = run.tasks
    /\ nextId' = run.nextId
    /\ taskCache' = run.cache
    /\ last' = [Operation(c.op, NoNote, c.title, c.task, run)
                  EXCEPT !.status = c.status, !.dueDate = c.dueDate,
                         !.via = via]
    /\ UNCHANGED selectedTaskListId
    /\ UNCHANGED raceVars
    /\ UNCHANGED vars

\* A function of api.ts called with a token its caller acquired.
apiCall(run, list, c) ==
    LET a == withAccessToken(run) IN
    IF Failed(a) THEN a
    ELSE CASE c.op = "fetchTaskLists" -> fetchTaskLists(a, a.tokens)
           [] c.op = "fetchTasks" -> fetchTasks(a, list, a.tokens)
           [] c.op = "createTask" ->
                createTask(a, list, a.tokens, c.title, c.dueDate)
           [] c.op = "updateTask" ->
                updateTask(a, list, a.tokens, c.task, c.title, c.status,
                           c.dueDate)
           [] c.op = "deleteTask" -> deleteTask(a, list, a.tokens, c.task)
           [] c.op = "updateTaskListName" ->
                updateTaskListName(a, list, a.tokens, c.title)

ApiCall(c, fail) ==
    FinishCall("api", c, apiCall(Start(fail), selectedTaskListId, c))

\* A method of MicrosoftTaskService.
serviceCall(run, list, c) ==
    CASE c.op = "fetchTaskLists" -> Service_fetchTaskLists(run, list)
      [] c.op = "fetchTasks" -> Service_fetchTasks(run, list)
      [] c.op = "createTask" -> Service_createTask(run, list, c.title, c.dueDate)
      [] c.op = "updateTask" ->
           Service_updateTask(run, list, c.task, c.title, c.status, c.dueDate)
      [] c.op = "deleteTask" -> Service_deleteTask(run, list, c.task)
      [] c.op = "updateTaskListName" ->
           Service_updateTaskListName(run, list, c.title)

ServiceCall(c, fail) ==
    FinishCall("service", c, serviceCall(Start(fail), selectedTaskListId, c))

\* The lists that other clients left on the server.
InitialLists ==
    {<<>>,
     <<RemoteTask(1, "A", "completed", Undefined),
       RemoteTask(2, "B", "notStarted", Undefined),
       RemoteTask(3, "C", "completed", Undefined)>>,
     <<RemoteTask(1, "A", "completed", Undefined),
       RemoteTask(2, "A ", "completed", "2025-01-01")>>}

\* The handlers that can be in flight at the same time.
Procs == {1, 2}

\* A handler stands at "idle", at "updated" (its PATCH resolved, the refresh
\* not yet fetched) or at "fetched" (the GET of its refresh was answered, the
\* continuation that assigns the cache has not run yet).
Pending(pc, run, v) == [pc |-> pc, run |-> run, version |-> v]

NoPending == Pending("idle", Begin(<<>>, 1, NoCache, 0), 0)

\* The plugin after onload, before any task operation.
TaskIdle ==
    /\ taskCache = NoCache
    /\ last = NoOperation
    /\ ops = 0
    /\ pending = [p \in Procs |-> NoPending]
    /\ version = 1
    /\ stored = [held |-> 0, newest |-> 0]

TaskInit ==
    /\ tokenFile = File(Serialize(CacheAfterExchange(<<>>, "alice", 1)))
    /\ cca = OnloadCache(tokenFile)
    /\ calls = <<>>
    /\ issued = 2
    /\ selectedTaskListId \in {"", ListId}
    /\ remote \in InitialLists
    /\ nextId = Len(remote) + 1
    /\ TaskIdle

TaskNext ==
    \/ \E fail \in Fails : GetTasksCommand(fail)
    \/ \E note \in Notes : \E fail \in Fails : PushTasksCommand(note, fail)
    \/ \E dueDate \in DueDates : \E fail \in Fails :
          PushOneTaskCommand("B", dueDate, fail)
    \/ \E i \in 1..MaxId : \E fail \in Fails : CompleteTaskCommand(i, fail)
    \/ \E fail \in Fails : RefreshButton(fail)
    \/ \E fail \in Fails : DeleteCompletedCommand(fail)
    \/ \E i \in 1..MaxId : \E fail \in Fails : CheckboxChange(i, fail)
    \/ \E i \in 1..MaxId : \E fail \in Fails : HandleTaskStatusChange(i, fail)
    \/ \E fail \in Fails : LoadAvailableTaskLists(fail)
    \/ \E value \in {"", ListId} : SettingsDropdown(value)
    \/ \E fail \in Fails : SelectTaskListCommand(fail)

SpecTasks == TaskInit /\ [][TaskNext]_<<vars, taskVars>>

\* The task API client on its own: any function, any arguments, any list.
ClientNext ==
    \/ \E c \in ClientCalls : \E fail \in -1..1 : ApiCall(c, fail)
    \/ \E c \in ClientCalls : \E fail \in -1..1 : ServiceCall(c, fail)
    \/ \E value \in {"", ListId} : SettingsDropdown(value)

SpecClient == TaskInit /\ [][ClientNext]_<<vars, taskVars>>

----
\* Handlers that overlap. Every await of a handler is a point where another
\* handler runs: the server answers a GET with the list as it is at that
\* moment, and the continuation of refreshTaskCache assigns the cache later.

MaxWrites == 3

Max(a, b) == IF a >= b THEN a ELSE b

storeFetchedIfNewer(cache, st, pend) ==
    IF pend.version < st.newest THEN cache ELSE Cached(pend.run.map)

\* this.taskCache = { tasks: Array.from(tasks.entries()) }
storeFetched(cache, st, pend) == Cached(pend.run.map)

\* The first half of handleTaskStatusChange: the PATCH and the flip of the
\* item; the refresh is still to come. A PATCH that fails changes neither
\* the server nor the cache, and the handler is over.
ToggleUpdate(p, i) ==
    /\ pending[p].pc = "idle"
    /\ taskCache.cached
    /\ i <= Len(taskCache.tasks)
    /\ version < MaxWrites
    /\ LET newCompletedState == taskCache.tasks[i][2].status # "completed"
           task == taskCache.tasks[i][2]
           u == Service_updateTask(Start(0), selectedTaskListId, task.id,
                                   Undefined, JsBool(newCompletedState),
                                   Undefined)
       IN /\ ~Failed(u)
          /\ remote' = u.tasks
          /\ taskCache' = flipStatus(u, i, newCompletedState).cache
          /\ pending' = [pending EXCEPT ![p] =
                            Pending("updated", u, version + 1)]
    /\ version' = version + 1
    /\ UNCHANGED <<selectedTaskListId, nextId, last, ops, stored>>
    /\ UNCHANGED vars

\* refreshTaskCache up to the answer of the server, called by the refresh
\* button or by the second half of handleTaskStatusChange.
RefreshFetch(p, fail) ==
    /\ pending[p].pc \in {"idle", "updated"}
    /\ pending' = [pending EXCEPT ![p] =
                      Pending("fetched",
                              refreshTaskCache(Start(fail),
                                               selectedTaskListId),
                              version)]
    /\ UNCHANGED <<selectedTaskListId, remote, nextId, taskCache, last, ops,
                   version, stored>>
    /\ UNCHANGED vars

\* The continuation of refreshTaskCache after its awaits.
RefreshStore(p) ==
    /\ pending[p].pc = "fetched"
    /\ IF Failed(pending[p].run)
       THEN UNCHANGED <<taskCache, stored>>
       ELSE /\ taskCache' = storeFetched(taskCache, stored, pending[p])
            /\ stored' = [held |-> pending[p].version,
                          newest |-> Max(stored.newest, pending[p].version)]
    /\ pending' = [pending EXCEPT ![p] = NoPending]
    /\ UNCHANGED <<selectedTaskListId, remote, nextId, last, ops, version>>
    /\ UNCHANGED vars

RaceNext ==
    \/ \E p \in Procs : \E i \in 1..MaxId : ToggleUpdate(p, i)
    \/ \E p \in Procs : \E fail \in {0, 2} : RefreshFetch(p, fail)
    \/ \E p \in Procs : RefreshStore(p)

SpecRace == TaskInit /\ [][RaceNext]_<<vars, taskVars>>


\* Token files an earlier session can have left: none, one without a
\* refresh-token section, one with empty sections, one account, two accounts.
PriorFiles ==
    {NoFile,
     File(NoData),
     File(Serialize(<<>>)),
     File(Serialize(CacheAfterExchange(<<>>, "alice", 1))),
     File(Serialize(CacheAfterExchange(CacheAfterExchange(<<>>, "alice", 1),
                                       "bob", 2)))}

\* The plugin after onload: the client is constructed and the token file, if
\* there is one, is loaded into it.
Init ==
    /\ tokenFile \in PriorFiles
    /\ cca = OnloadCache(tokenFile)
    /\ calls = <<>>
    /\ issued = 2
    /\ selectedTaskListId = ""
    /\ remote = <<>>
    /\ nextId = 1
    /\ TaskIdle

Next ==
    \/ GetToken
    \/ LoginCommand
    \/ RefreshCommand
    \/ \E c \in 1..Len(calls) : \E url \in RedirectUrls : WillRedirect(c, url)
    \/ \E c \in 1..Len(calls) : UserClosesWindow(c)
    \/ \E c \in 1..Len(calls) : AcquireTokenByCodeDone(c)
    \/ \E c \in 1..Len(calls) : AcquireTokenByRefreshTokenDone(c)

Spec == Init /\ [][Next]_vars

----
\* The two refreshes side by side: the refresh of the task cache and the
\* refresh of the token.

FrameNext ==
    \/ \E fail \in Fails : RefreshButton(fail)
    \/ RefreshCommand
    \/ \E c \in 1..Len(calls) : AcquireTokenByRefreshTokenDone(c)

SpecFrames == TaskInit /\ [][FrameNext]_<<vars, taskVars>>

----
\* One interactive login on its own, with a window that reports a longer
\* sequence of redirects.

MaxLoginRedirects == 3

\* The login command has just opened its window.
LoginInit ==
    /\ tokenFile \in PriorFiles
    /\ cca = OnloadCache(tokenFile)
    /\ calls = <<getAccessToken(NewCall("login", "login"))>>
    /\ issued = 2
    /\ selectedTaskListId = ""
    /\ remote = <<>>
    /\ nextId = 1
    /\ TaskIdle

LoginNext ==
    \/ \E url \in RedirectUrls : WillRedirectWithin(1, url, MaxLoginRedirects)
    \/ UserClosesWindow(1)
    \/ AcquireTokenByCodeDone(1)

SpecLogin == LoginInit /\ [][LoginNext]_vars

----
\* Properties.

Calls == 1..Len(calls)

ErrName(rec) == rec.err.name

RECURSIVE Secrets(_)
\* The secrets of a serialized section.
Secrets(section) ==
    IF section = <<>> THEN {}
    ELSE {Head(section).secret} \cup Secrets(Tail(section))

RECURSIVE FirstOfType(_, _)
\* The first credential of a type held by an in-memory cache (0: none).
FirstOfType(cache, type) ==
    IF cache = <<>> THEN 0
    ELSE IF Head(cache).type = type THEN Head(cache).secret
         ELSE FirstOfType(Tail(cache), type)

\* No token exchange is in flight.
Idle == \A c \in Calls : calls[c].pc # "exchanging"

\* C1: getToken() starts the interactive login (a login window opens) if and
\* only if the token file did not exist at the moment of the call; whenever
\* the file existed it took the refresh path and opened no window.
C1_LoginIffNoTokenFile ==
    \A c \in Calls :
        calls[c].op = "getToken" =>
            /\ (calls[c].path = "login" /\ calls[c].window # "none")
                  <=> ~calls[c].fileAtCall
            /\ calls[c].fileAtCall =>
                  /\ calls[c].path = "refresh"
                  /\ calls[c].window = "none"
                  /\ calls[c].pc \in {"exchanging", "resolved", "rejected"}

\* C1 witness: one getToken() call went to the login window (no file) and a
\* later one, the file now written, to the refresh path.
C1_Witness ==
    \E c1, c2 \in Calls :
        /\ calls[c1].op = "getToken" /\ ~calls[c1].fileAtCall
        /\ calls[c1].path = "login" /\ calls[c1].pc = "resolved"
        /\ calls[c2].op = "getToken" /\ calls[c2].fileAtCall
        /\ calls[c2].path = "refresh"

\* C2: a getToken() call made while the token file exists never opens a login
\* window: when its refresh fails (no usable refresh token, or the exchange is
\* rejected) it is rejected with that error. A login window belongs to an
\* explicit login or to a getToken() call made without a token file.
C2_NoFallbackToLogin ==
    /\ \A c \in Calls :
          (calls[c].op = "getToken" /\ calls[c].fileAtCall) =>
              /\ calls[c].window = "none"
              /\ calls[c].pc \in {"exchanging", "resolved", "rejected"}
              /\ calls[c].pc = "rejected" =>
                    \/ /\ calls[c].sent = 0
                       /\ ErrName(calls[c]) \in {"NoRefreshToken", "TypeError"}
                    \/ /\ calls[c].sent = 1
                       /\ ErrName(calls[c]) \in {"ExchangeRejected", "NoTokenResponse"}
    /\ \A c \in Calls :
          calls[c].window # "none" =>
              \/ calls[c].op = "login"
              \/ calls[c].op = "getToken" /\ ~calls[c].fileAtCall

\* C2 witness: a getToken() call whose refresh exchange was rejected, and a
\* later getToken() call with the file still there, on the refresh path again.
C2_Witness ==
    \E c1, c2 \in Calls :
        /\ c1 < c2
        /\ calls[c1].op = "getToken" /\ calls[c1].pc = "rejected"
        /\ calls[c1].sent = 1 /\ ErrName(calls[c1]) = "ExchangeRejected"
        /\ calls[c2].op = "getToken" /\ calls[c2].path = "refresh"
        /\ tokenFile.exists

\* C3: refreshAccessTokenWithCCA called without a token file fails with the
\* no-token-cache error, sends no request and writes no file.
C3_RefreshWithoutFile ==
    \A c \in Calls :
        (calls[c].path = "refresh" /\ ~calls[c].fileAtCall) =>
            /\ calls[c].pc = "rejected"
            /\ ErrName(calls[c]) = "NoTokenCache"
            /\ calls[c].sent = 0
            /\ calls[c].writes = 0

\* C3 witness: the refresh command was run without a token file, and there
\* is still none.
C3_Witness ==
    /\ ~tokenFile.exists
    /\ \E c \in Calls :
          /\ calls[c].op = "refresh" /\ ~calls[c].fileAtCall
          /\ calls[c].pc = "rejected"

\* C4: a refresh over a token file with zero refresh-token entries (section
\* missing or empty) fails with the no-refresh-token error and sends no
\* request.
C4_NoRefreshTokenError ==
    \A c \in Calls :
        (calls[c].path = "refresh" /\ calls[c].fileAtCall /\ calls[c].rtAtCall = 0) =>
            /\ calls[c].pc = "rejected"
            /\ ErrName(calls[c]) = "NoRefreshToken"
            /\ calls[c].sent = 0

\* C5: a call that returned an access token has written the token file, and
\* whenever no exchange is in flight after a successful one, the file is the
\* serialization of the client's cache and holds the access and refresh token
\* of the latest successful exchange.
C5_FileIsLatestSerialization ==
    /\ \A c \in Calls :
          calls[c].pc = "resolved" =>
              /\ tokenFile.exists
              /\ calls[c].writes = 1
              /\ calls[c].token \in 3..issued
    /\ (Idle /\ \E c \in Calls : calls[c].pc = "resolved") =>
          /\ tokenFile = File(Serialize(cca))
          /\ issued \in Secrets(tokenFile.data.AccessToken)
          /\ issued \in Secrets(tokenFile.data.RefreshToken)
          /\ \E c \in Calls : calls[c].pc = "resolved" /\ calls[c].token = issued

\* C5 witness: two exchanges have succeeded, one interactive and one by
\* refresh token, and none is in flight.
C5_Witness ==
    /\ Idle
    /\ \E c1, c2 \in Calls :
          /\ calls[c1].path = "login" /\ calls[c1].pc = "resolved"
          /\ calls[c2].path = "refresh" /\ calls[c2].pc = "resolved"

\* Call c's listener ran in this step (a redirect was delivered to it).
Redirected(c) == calls'[c].redirects = calls[c].redirects + 1

\* The interactive login of call c settled in this step.
SettledNow(c) ==
    /\ calls[c].path = "login"
    /\ calls[c].pc \in {"waiting", "exchanging"}
    /\ calls'[c].pc \in {"resolved", "rejected"}

\* What a redirect with a usable code does at once, and how the exchange it
\* starts ends.
CodeRedirectHandled(c, isCode) ==
    /\ (Redirected(c) /\ isCode) =>
          /\ calls'[c].prevented
          /\ calls'[c].window = "closed"
          /\ calls'[c].pc = "exchanging"
          /\ calls'[c].sent = calls[c].sent + 1
    /\ (calls[c].path = "login" /\ calls[c].pc = "exchanging") =>
          /\ calls[c].window = "closed" /\ calls[c].prevented
          /\ calls'[c].pc = "resolved" =>
                /\ tokenFile' = File(Serialize(cca'))
                /\ calls'[c].writes = calls[c].writes + 1
                /\ calls'[c].token \in Secrets(tokenFile'.data.AccessToken)
                /\ calls'[c].window = "closed"
          /\ calls'[c].pc \notin {"exchanging", "resolved"} =>
                /\ calls'[c].pc = "rejected"
                /\ ErrName(calls'[c]) \in {"ExchangeRejected", "NoTokenResponse"}
                /\ calls'[c].window = "closed"
                /\ calls'[c].writes = calls[c].writes
                /\ tokenFile' = tokenFile

\* C6 as stated: every redirect that carries a code parameter and no error
\* parameter cancels navigation, closes the window and starts the exchange,
\* which ends with the file written and the promise resolved, or with the
\* promise rejected, the window closed and the file unwritten.
C6_CodeRedirect ==
    [][\A c \in Calls :
          CodeRedirectHandled(c, calls'[c].lastUrl.code # Absent
                                 /\ calls'[c].lastUrl.error = Absent)]_vars

\* C6 amended: the same for every redirect whose code parameter is non-empty
\* and whose error parameter is absent or empty.
C6_NonEmptyCodeRedirect ==
    [][\A c \in Calls :
          CodeRedirectHandled(c, Truthy(calls'[c].lastUrl.code)
                                 /\ ~Truthy(calls'[c].lastUrl.error))]_vars

\* C6 witness: one login resolved after a code redirect, and another was
\* rejected because its code exchange failed.
C6_Witness ==
    \E c1, c2 \in Calls :
        /\ calls[c1].path = "login" /\ calls[c1].pc = "resolved"
        /\ Truthy(calls[c1].lastUrl.code)
        /\ calls[c2].path = "login" /\ calls[c2].pc = "rejected"
        /\ calls[c2].sent = 1 /\ calls[c2].window = "closed"

\* What a redirect with an error does: the promise rejects with the OAuth
\* error holding the provider's string, the window is closed, no exchange is
\* started and nothing is written.
ErrorRedirectHandled(c, isError) ==
    (Redirected(c) /\ isError) =>
        /\ calls'[c].pc = "rejected"
        /\ calls'[c].err = OAuthError(calls'[c].lastUrl.error)
        /\ calls'[c].window = "closed"
        /\ calls'[c].sent = calls[c].sent
        /\ calls'[c].writes = calls[c].writes
        /\ UNCHANGED <<tokenFile, cca, issued>>

\* C7 as stated: every redirect that carries an error parameter, with or
\* without a code, rejects with the OAuth error and exchanges nothing.
C7_ErrorRedirect ==
    [][\A c \in Calls :
          ErrorRedirectHandled(c, calls'[c].lastUrl.error # Absent)]_vars

\* C7 amended: the same for every redirect whose error parameter is
\* non-empty.
C7_NonEmptyErrorRedirect ==
    [][\A c \in Calls :
          ErrorRedirectHandled(c, Truthy(calls'[c].lastUrl.error))]_vars

\* C7 witness: a login rejected by a redirect that carried both an error and
\* a code.
C7_Witness ==
    \E c \in Calls :
        /\ calls[c].pc = "rejected"
        /\ calls[c].err = OAuthError("access_denied")
        /\ Truthy(calls[c].lastUrl.code)
        /\ calls[c].sent = 0

\* C8: an interactive login settles only in a step that follows a redirect
\* with a code or an error, and a login whose window was closed while it
\* waited stays pending, whatever happens next.
C8_SettlesOnlyOnRedirect ==
    [][\A c \in Calls :
          /\ SettledNow(c) =>
                /\ calls'[c].redirects >= 1
                /\ \/ Truthy(calls'[c].lastUrl.code)
                   \/ Truthy(calls'[c].lastUrl.error)
          /\ (calls[c].pc = "waiting" /\ calls[c].window = "closed") =>
                calls'[c] = calls[c]]_vars

\* C8 witness: a getToken() call waits on a login whose window the user
\* closed before any code or error arrived.
C8_Witness ==
    \E c \in Calls :
        /\ calls[c].op = "getToken"
        /\ calls[c].pc = "waiting"
        /\ calls[c].window = "closed"

\* C9: a redirect with neither a code nor an error parameter changes nothing
\* but the count of events seen: window open, navigation not cancelled, no
\* exchange, token file and cache untouched, promise pending.
C9_PlainRedirectNoEffect ==
    [][\A c \in Calls :
          (/\ Redirected(c)
           /\ calls'[c].lastUrl.code = Absent
           /\ calls'[c].lastUrl.error = Absent) =>
              /\ calls'[c] = Seen(calls[c], NoUrl)
              /\ calls'[c].window = "open"
              /\ ~calls'[c].prevented
              /\ calls'[c].sent = 0
              /\ calls'[c].pc = "waiting"
              /\ UNCHANGED <<tokenFile, cca, issued>>]_vars

\* C9 witness: a login that saw a redirect without code and error and is
\* still waiting with its window open.
C9_Witness ==
    \E c \in Calls :
        /\ calls[c].redirects >= 1
        /\ calls[c].lastUrl = NoUrl
        /\ calls[c].pc = "waiting"
        /\ calls[c].window = "open"

----
\* Properties of the task API client and of the task operations.

\* What trimming a stored title gives, written out title by title.
TrimOf == [t \in {"A", "B", "C"} |-> t] @@ [t \in {"A "} |-> "A"]

\* The last position of value whose title trims to k.
LastWith(value, k) ==
    CHOOSE i \in 1..Len(value) :
        /\ TrimOf[value[i].title] = k
        /\ \A j \in (i + 1)..Len(value) : TrimOf[value[j].title] # k

\* C11: after a successful fetchTasks the keys of the returned map are the
\* trimmed titles of the items of the response, the map has at most as many
\* entries as the response has items, and each title maps to the last item
\* of the response with that trimmed title.
C11_FetchTasksMap ==
    last.run.fetched =>
        LET map == last.run.map
            value == last.run.value
        IN /\ MapKeys(map) = {TrimOf[value[i].title] : i \in 1..Len(value)}
           /\ Cardinality(MapKeys(map)) = Len(map)
           /\ Len(map) <= Len(value)
           /\ \A k \in MapKeys(map) :
                LET t == value[LastWith(value, k)] IN
                MapGet(map, k) = [title |-> k, status |-> t.status,
                                  id |-> t.id, dueDateTime |-> t.dueDateTime]

\* A fetch answered with two tasks whose titles trim to the same key.
C11_Witness ==
    /\ last.run.fetched
    /\ Len(last.run.value) = 2
    /\ Len(last.run.map) = 1
    /\ last.run.map[1][2].id = 2

Range(seq) == {seq[i] : i \in 1..Len(seq)}

Requests == last.run.requests

Sent(method) == {i \in 1..Len(Requests) : Requests[i].method = method}

\* pushTasksFromNote returned its count to the command.
PushReturned(op, notices) ==
    /\ op = "pushTasksFromNote"
    /\ "Tasks synced successfully!" \in Range(notices)

\* The titles of the note's tasks, and the marks the note gives a title.
NoteTitles(note) ==
    {TrimOf[note[i].text] : i \in {j \in 1..Len(note) : note[j].mark # "-"}}

NoteMarks(note, title) ==
    {note[i].mark : i \in {j \in 1..Len(note) :
                             note[j].mark # "-" /\ TrimOf[note[j].text] = title}}

\* The titles on the server when the operation began, trimmed.
TitlesBefore == {TrimOf[last.before[i].title] : i \in 1..Len(last.before)}

\* C12: a pushTasksFromNote that returns has issued exactly one create per
\* distinct note title without a remote task of that title, each create
\* asking for the status of the note's mark (completed for [x], notStarted
\* otherwise), and has returned that number.
C12_OneCreatePerMissingTitle ==
    PushReturned(last.op, last.run.notices) =>
        LET missing == NoteTitles(last.note) \ TitlesBefore IN
        /\ Cardinality(Sent("POST")) = Cardinality(missing)
        /\ last.run.count = Cardinality(missing)
        /\ \A i \in Sent("POST") :
             /\ Requests[i].body.title \in missing
             /\ Has(Requests[i].body, "status")
             /\ \/ /\ Requests[i].body.status = "completed"
                   /\ "x" \in NoteMarks(last.note, Requests[i].body.title)
                \/ /\ Requests[i].body.status = "notStarted"
                   /\ " " \in NoteMarks(last.note, Requests[i].body.title)

\* C13: a pushTasksFromNote that returns right after one that returned for
\* the same note has created nothing and returned 0, and each update it
\* issued completes a task that the note marks [x] and that was not completed
\* on the server.
C13_SecondPushCreatesNothing ==
    (/\ PushReturned(last.op, last.run.notices)
     /\ PushReturned(last.prev.op, last.prev.notices)
     /\ last.prev.note = last.note) =>
        /\ Sent("POST") = {}
        /\ last.run.count = 0
        /\ \A i \in Sent("PATCH") :
             LET at == IndexOfId(last.before, Requests[i].task) IN
             /\ at # 0
             /\ "x" \in NoteMarks(last.note, TrimOf[last.before[at].title])
             /\ last.before[at].status # "completed"
             /\ Requests[i].body = [status |-> "completed"]

\* The second push of the same note found a task to complete.
C13_Witness ==
    /\ PushReturned(last.op, last.run.notices)
    /\ PushReturned(last.prev.op, last.prev.notices)
    /\ last.prev.note = last.note
    /\ Len(last.before) = 3
    /\ Sent("PATCH") # {}

\* The ids of the tasks that were completed on the server when the operation
\* began.
CompletedBefore ==
    {last.before[i].id :
        i \in {j \in 1..Len(last.before) : last.before[j].status = "completed"}}

\* C14: a deleteAllCompletedTasks run in which no request and no token
\* acquisition failed has issued exactly one delete for each task that was
\* completed on the server when it began, none for any other task, and has
\* returned the number of those tasks.
C14_DeletesExactlyCompleted ==
    (/\ last.op = "deleteAllCompletedTasks"
     /\ JsTruthy(last.list)
     /\ last.run.fail = 0) =>
        /\ {Requests[i].task : i \in Sent("DELETE")} = CompletedBefore
        /\ Cardinality(Sent("DELETE")) = Cardinality(CompletedBefore)
        /\ last.run.count = Cardinality(CompletedBefore)

\* The last operation was a call of function op of the task API client.
ClientCalled(op) == last.via \in {"api", "service"} /\ last.op = op

\* The call sent its request and the answer was not a success.
NonSuccess ==
    /\ last.via \in {"api", "service"}
    /\ Len(Requests) = 1
    /\ ~Ok(last.run.res)

\* C15: the error a client function raises for a non-success response
\* carries the HTTP status and the body text of that response.
C15_ErrorCarriesStatusAndBody ==
    NonSuccess =>
        /\ Failed(last.run)
        /\ last.run.err.text = last.run.res.text
        /\ "status" \in DOMAIN last.run.err
        /\ last.run.err.status = last.run.res.status

\* The fields a PATCH body must hold for the arguments of the call.
Supplied ==
    (IF last.title # Undefined THEN {"title"} ELSE {})
    \cup (IF last.status # Undefined THEN {"status"} ELSE {})
    \cup (IF last.dueDate # Undefined THEN {"dueDateTime"} ELSE {})

\* C16: the PATCH body of updateTask holds exactly the fields the caller
\* supplied: the title as given, status completed for true and notStarted for
\* false, the due date as dueDateTime.dateTime.
C16_PatchBodyExactlySupplied ==
    (ClientCalled("updateTask") /\ Requests # <<>>) =>
        LET body == Requests[1].body IN
        /\ Requests[1].method = "PATCH"
        /\ DOMAIN body = Supplied
        /\ Has(body, "title") => body.title = last.title
        /\ Has(body, "status") =>
             body.status = (IF last.status = JsTrue THEN "completed"
                            ELSE "notStarted")
        /\ Has(body, "dueDateTime") =>
             body.dueDateTime.dateTime = last.dueDate

\* updateTask called with a status of false and nothing else.
C16_Witness ==
    /\ ClientCalled("updateTask")
    /\ last.status = JsFalse
    /\ last.title = Undefined
    /\ last.dueDate = Undefined
    /\ Requests # <<>>
    /\ Requests[1].body = [status |-> "notStarted"]

ListScoped ==
    {"getTasks", "pushTasksFromNote", "pushOneTask", "completeTask",
     "refreshTaskCache", "deleteAllCompletedTasks", "checkboxChange",
     "handleTaskStatusChange"}

\* The error the operation ended with, thrown or caught.
Outcome == IF Failed(last.run) THEN last.run.err ELSE last.run.caught

\* C18: an operation on the selected list that runs while no list is selected
\* (and whose token acquisition does not fail) sends no request to the task
\* API and ends with an error saying that no list is selected.
C18_NoListNoRequest ==
    (/\ last.op \in ListScoped
     /\ last.list = ""
     /\ last.run.fail # -1) =>
        /\ Requests = <<>>
        /\ Outcome \in {NoTaskListSelected,
                        Error("Missing selectedTaskListId in settings", "")}

\* The first position of value whose title trims to k.
FirstWith(value, k) ==
    CHOOSE i \in 1..Len(value) :
        /\ TrimOf[value[i].title] = k
        /\ \A j \in 1..(i - 1) : TrimOf[value[j].title] # k

RefreshSucceeded ==
    /\ last.op = "refreshTaskCache"
    /\ Outcome = NoError

\* C19: after a successful refreshTaskCache the cache holds exactly the
\* entries of the map just fetched, in the order of the fetch: one entry per
\* trimmed title of the response, none from the cache as it was before.
C19_CacheFullyReplaced ==
    RefreshSucceeded =>
        LET value == last.run.value
            tasks == taskCache.tasks
        IN /\ taskCache.cached
           /\ tasks = last.run.map
           /\ {tasks[i][1] : i \in 1..Len(tasks)}
                = {TrimOf[value[i].title] : i \in 1..Len(value)}
           /\ \A i \in 1..Len(tasks) :
                /\ tasks[i][2].title = tasks[i][1]
                /\ tasks[i][2].id = value[LastWith(value, tasks[i][1])].id
                /\ tasks[i][2].status
                     = value[LastWith(value, tasks[i][1])].status
           /\ \A i, j \in 1..Len(tasks) :
                i < j => FirstWith(value, tasks[i][1])
                           < FirstWith(value, tasks[j][1])

\* A refresh that found a cache holding a title the server no longer has.
C19_Witness ==
    /\ RefreshSucceeded
    /\ last.cacheBefore.cached
    /\ \E i \in 1..Len(last.cacheBefore.tasks) :
          ~MapHas(taskCache.tasks, last.cacheBefore.tasks[i][1])
    /\ taskCache.tasks # <<>>

\* The checkbox of a task was clicked, the update succeeded and the refresh
\* after it failed.
ToggledWithoutRefresh ==
    /\ last.op \in {"checkboxChange", "handleTaskStatusChange"}
    /\ Len(Requests) = 2
    /\ last.run.fail = 2

\* C20: after such a click the item of the cache has the toggled status,
\* completed when the box was checked and notStarted when it was unchecked.
C20_FlippedStatusStays ==
    ToggledWithoutRefresh =>
        \A i \in 1..Len(taskCache.tasks) :
            taskCache.tasks[i][2].id = last.item =>
                taskCache.tasks[i][2].status
                  = (IF last.cacheBefore.tasks[i][2].status # "completed"
                     THEN "completed" ELSE "notStarted")

\* C21: overlapping refreshes are not serialized: whenever the continuation
\* of a successful refresh runs, the cache becomes the map of that fetch,
\* even if the cache already held a newer snapshot of the list.
C21_LastResolvedWins ==
    [][\A p \in Procs :
          (/\ pending[p].pc = "fetched"
           /\ pending'[p].pc = "idle"
           /\ ~Failed(pending[p].run)) =>
              /\ taskCache' = Cached(TasksMap(pending[p].run.value))
              /\ stored'.held = pending[p].version]_<<vars, taskVars>>

\* Two refreshes overlapped and the one fetched earlier resolved last: the
\* cache holds a snapshot older than one it held before, and it differs from
\* the list on the server.
C21_Witness ==
    /\ taskCache.cached
    /\ stored.held < stored.newest
    /\ stored.newest = version
    /\ taskCache.tasks # TasksMap(remote)
    /\ \A p \in Procs : pending[p].pc = "idle"

\* A push whose request number fail, a create or an update, was answered
\* with a failure.
PushFailedMidway ==
    /\ last.op = "pushTasksFromNote"
    /\ last.run.fail >= 2
    /\ Len(Requests) >= last.run.fail
    /\ Requests[last.run.fail].method \in {"POST", "PATCH"}

\* The requests sent before the one that failed.
Earlier == SubSeq(Requests, 2, last.run.fail - 1)

\* C22: when a create or update of pushTasksFromNote fails, the operation
\* rejects with that error, no request follows the failed one, and what the
\* earlier requests created or completed stays on the server.
C22_PushAbortsWithoutRollback ==
    PushFailedMidway =>
        /\ Len(Requests) = last.run.fail
        /\ Outcome.name \in {"Failed to create task: ",
                             "Failed to update task: "}
        /\ "Tasks synced successfully!" \notin Range(last.run.notices)
        /\ Len(remote)
             = Len(last.before)
               + Len(SelectSeq(Earlier, LAMBDA q : q.method = "POST"))
        /\ \A i \in 1..Len(last.before) :
              remote[i].id = last.before[i].id
        /\ \A i \in 1..Len(Earlier) :
              /\ Earlier[i].method = "POST" =>
                    \E j \in 1..Len(remote) :
                        /\ j > Len(last.before)
                        /\ remote[j].title = Earlier[i].body.title
              /\ Earlier[i].method = "PATCH" =>
                    \E j \in 1..Len(remote) :
                        /\ remote[j].id = Earlier[i].task
                        /\ remote[j].status = "completed"

\* The second create of a push failed after the first had created a task,
\* and the note held one more task.
C22_Witness ==
    /\ PushFailedMidway
    /\ last.run.fail = 3
    /\ Len(remote) = Len(last.before) + 1
    /\ Len(noteTasks(last.note)) = 3

\* The operations that commands of the command palette run.
Commands ==
    {"getTasks", "pushTasksFromNote", "pushOneTask", "completeTask",
     "selectTaskList", "deleteAllCompletedTasks"}

SuccessNotices ==
    {"Tasks fetched successfully!", "Tasks synced successfully!",
     "Tasks pushed successfully!", "completed tasks deleted successfully!",
     "Task marked as complete and synced."}

ErrorNotices ==
    {"Error fetching tasks. Check the console for details.",
     "Error pushing tasks. Check the console for details.",
     "Error completing task. Check the console for details.",
     "Error deleting tasks. Check the console for details."}

\* A token acquisition of the operation threw, or the service failed one of
\* its requests.
SomethingFailed ==
    \/ last.run.fail = -1 /\ Outcome = Err("TokenError")
    \/ last.run.fail >= 1 /\ Len(Requests) >= last.run.fail

\* C23: a command on whose behalf a token acquisition or a request failed
\* ends with an error notification and shows no success notification.
C23_FailureEndsInErrorNotice ==
    (last.op \in Commands /\ SomethingFailed) =>
        /\ Range(last.run.notices) \cap ErrorNotices # {}
        /\ Range(last.run.notices) \cap SuccessNotices = {}

\* C24: pushOneTask with a title that a task of the selected list already
\* has issues no create request.
C24_NoCreateForExistingTitle ==
    (/\ last.op = "pushOneTask"
     /\ \E i \in 1..Len(last.before) : last.before[i].title = last.title) =>
        Sent("POST") = {}

\* The operations that mark a task from Obsidian: the two checkbox handlers
\* of the side panel and the pick in the Show Tasks List modal.
Marking == {"checkboxChange", "handleTaskStatusChange", "completeTask"}

\* The status the user asked for: completed when the task was picked in the
\* modal or its box was ticked, notStarted when the box was unticked.
WantedStatus ==
    IF last.op = "completeTask" THEN "completed"
    ELSE IF \E i \in 1..Len(last.cacheBefore.tasks) :
               /\ last.cacheBefore.tasks[i][2].id = last.item
               /\ last.cacheBefore.tasks[i][2].status = "completed"
         THEN "notStarted"
         ELSE "completed"

\* C25: marking a task sends, for the id of that task, an update whose body
\* sets the status asked for and no title; when the update succeeds the task
\* on the server has that status and the title it had.
C25_MarkingSetsStatus ==
    (last.op \in Marking /\ Sent("PATCH") # {}) =>
        \A i \in Sent("PATCH") :
            /\ Requests[i].task = last.item
            /\ Has(Requests[i].body, "status")
            /\ ~Has(Requests[i].body, "title")
            /\ Requests[i].body.status = WantedStatus
            /\ (last.run.fail # i /\ last.list = ListId) =>
                 \A j \in 1..Len(remote) :
                    remote[j].id = last.item =>
                       /\ remote[j].status = WantedStatus
                       /\ \A k \in 1..Len(last.before) :
                             last.before[k].id = last.item =>
                                remote[j].title = last.before[k].title

\* C26: selecting a task list, by the command or by the dropdown of the
\* settings, fetches the tasks of that list, and a cache that holds tasks
\* holds those of the list that is selected now; ListId is the only list
\* whose tasks the server ever returned.
C26_CacheFollowsSelection ==
    /\ (/\ last.op \in {"selectTaskList", "settingsDropdown"}
        /\ selectedTaskListId # ""
        /\ last.run.fail # -1) => Sent("GET") # {}
    /\ taskCache.cached => selectedTaskListId = ListId

Settled(rec) == rec.pc \in {"resolved", "rejected"}

\* C27: whatever redirects its window reports, one interactive login sends
\* at most one authorization-code request and writes the token file at most
\* once, and once its promise is settled its outcome never changes.
C27_OneExchangeOneWriteOneSettle ==
    [][/\ calls'[1].sent <= 1
       /\ calls'[1].writes <= 1
       /\ issued' <= 3
       /\ tokenFile' # tokenFile => calls'[1].writes = calls[1].writes + 1
       /\ Settled(calls[1]) =>
             /\ calls'[1].pc = calls[1].pc
             /\ calls'[1].token = calls[1].token
             /\ calls'[1].err = calls[1].err]_vars

\* A login that resolved after its window had reported three redirects.
C27_Witness ==
    /\ calls[1].redirects = 3
    /\ calls[1].pc = "resolved"
    /\ calls[1].sent = 1
    /\ calls[1].writes = 1

\* The PATCH of a checkbox click reached the server and was answered 200.
UpdateSucceeded ==
    /\ Sent("PATCH") = {1}
    /\ last.run.fail # 1
    /\ last.list = ListId
    /\ \E k \in 1..Len(last.before) : last.before[k].id = last.item

\* C28: a click on a checkbox of the side panel reports Failed to update
\* task and puts the box back only if the update did not succeed; when the
\* update succeeded and the refresh after it failed, the box shows the
\* status the task has on the server.
C28_RevertOnlyWhenUpdateFailed ==
    last.op \in {"checkboxChange", "handleTaskStatusChange"} =>
        /\ "Failed to update task" \in Range(last.run.notices)
             => ~UpdateSucceeded
        /\ last.run.checked # (WantedStatus = "completed")
             => ~UpdateSucceeded
        /\ (UpdateSucceeded /\ last.run.fail = 2) =>
              \A j \in 1..Len(remote) :
                 remote[j].id = last.item =>
                    last.run.checked = (remote[j].status = "completed")

\* C29: a refreshTaskCache that fails leaves the task cache as it was, and a
\* refresh-token exchange that fails writes nothing to the token file.
C29_FailedRefreshChangesNothing ==
    [][/\ (/\ ops' = ops + 1
           /\ last'.op = "refreshTaskCache"
           /\ last'.run.caught # NoError) => taskCache' = taskCache
       /\ \A c \in 1..Len(calls) :
             (/\ calls[c].path = "refresh"
              /\ calls[c].pc = "exchanging"
              /\ calls'[c].pc = "rejected") =>
                 /\ tokenFile' = tokenFile
                 /\ calls'[c].writes = 0]_<<vars, taskVars>>

\* A refresh of a filled cache failed at its fetch, and a refresh-token
\* exchange was rejected.
C29_Witness ==
    /\ last.op = "refreshTaskCache"
    /\ last.run.caught.name = "Failed to fetch tasks: "
    /\ last.cacheBefore.cached
    /\ last.cacheBefore.tasks # <<>>
    /\ taskCache = last.cacheBefore
    /\ \E c \in 1..Len(calls) :
          /\ calls[c].path = "refresh"
          /\ calls[c].sent = 1
          /\ calls[c].pc = "rejected"

\* The trimmed titles the note marks [x].
NoteCompleted ==
    {noteTasks(last.note)[i].title :
        i \in {j \in 1..Len(noteTasks(last.note)) :
                  noteTasks(last.note)[j].complete}}

\* C30: pushTasksFromNote sends no delete; every update it sends asks for
\* status completed and nothing else, for a task that was on the server, was
\* not completed and has a title the note marks [x]; every task that was on
\* the server is still there with its title, and with its status or
\* completed.
C30_PushOnlyCompletes ==
    last.op = "pushTasksFromNote" =>
        /\ Sent("DELETE") = {}
        /\ \A i \in Sent("PATCH") :
              /\ DOMAIN Requests[i].body = {"status"}
              /\ Requests[i].body.status = "completed"
              /\ \E k \in 1..Len(last.before) :
                    /\ last.before[k].id = Requests[i].task
                    /\ last.before[k].status # "completed"
                    /\ TrimOf[last.before[k].title] \in NoteCompleted
        /\ Len(remote) >= Len(last.before)
        /\ \A k \in 1..Len(last.before) :
              /\ remote[k].id = last.before[k].id
              /\ remote[k].title = last.before[k].title
              /\ remote[k].status \in {last.before[k].status, "completed"}

\* A push completed a task of the server that the note marks [x] and left a
\* completed task alone that the note marks [ ].
C30_Witness ==
    /\ last.op = "pushTasksFromNote"
    /\ Sent("PATCH") # {}
    /\ \E k \in 1..Len(last.before) :
          /\ last.before[k].status = "notStarted"
          /\ remote[k].status = "completed"
    /\ \E k \in 1..Len(last.before) :
          /\ last.before[k].status = "completed"
          /\ TrimOf[last.before[k].title] \notin NoteCompleted
          /\ remote[k] = last.before[k]

====
